---- MODULE Spec2Model ----
(***************************************************************************)
(* A model of streaming_multipart.py: MultipartReader, Part, _PartReader   *)
(* and _Buff over an io.BufferedReader byte source.                        *)
(*                                                                         *)
(* Bytes are modelled as named symbols, byte strings as sequences of them. *)
(* The byte source is a BufferedReader over a raw stream that hands out    *)
(* the stream in chunks; `cuts` is the set of offsets at which the raw     *)
(* stream ends one chunk and starts the next. After the last byte the raw  *)
(* stream either reports the end of the stream (`fault` is "") or fails:   *)
(* every raw read there raises the exception `fault` names.                *)
(***************************************************************************)
EXTENDS Integers, Sequences, FiniteSets, TLC

VARIABLES data, cuts, fault, boundary, payloads, br, mr, parts,
          delivered, origin, stale, done, ret, got

vars == <<data, cuts, fault, boundary, payloads, br, mr, parts,
          delivered, origin, stale, done, ret, got>>

---------------------------------------------------------------------------
(* Bounds of the model *)

\* most chunk borders of the raw stream
MaxCuts == 1
\* largest explicit length n of a Part.read(n) call
MaxRead == 3
\* BLOCK_SIZE (streaming_multipart.py:20 sets 4096), scaled down so that
\* bodies longer than one block occur
BLOCK_SIZE == 2

---------------------------------------------------------------------------
(* Bytes and byte strings *)

CR == "CR"
LF == "LF"
SP == "SP"
TAB == "TAB"
DASH == "-"
COLON == ":"
SEMI == ";"
EQ == "="
QUOTE == "\""
CRLF == <<CR, LF>>

StartsWith(s, t) == Len(s) >= Len(t) /\ SubSeq(s, 1, Len(t)) = t

\* s[n:]
From(s, n) == SubSeq(s, n + 1, Len(s))

\* s[:n]
Upto(s, n) == SubSeq(s, 1, IF n < Len(s) THEN n ELSE Len(s))

\* bytes.find: the least 0-based offset of t in s, or -1
Find(s, t) ==
  LET hits == {i \in 0..(Len(s) - Len(t)) : SubSeq(s, i + 1, i + Len(t)) = t}
  IN IF hits = {} THEN -1 ELSE CHOOSE i \in hits : \A j \in hits : i <= j

Min(S) == CHOOSE x \in S : \A y \in S : x <= y

\* s.lstrip(cs), s.rstrip(cs) and s.strip() of a str
RECURSIVE LStrip(_, _)
LStrip(s, cs) ==
  IF s # <<>> /\ s[1] \in cs THEN LStrip(Tail(s), cs) ELSE s

RECURSIVE RStrip(_, _)
RStrip(s, cs) ==
  IF s # <<>> /\ s[Len(s)] \in cs THEN RStrip(SubSeq(s, 1, Len(s) - 1), cs) ELSE s

Strip(s) == RStrip(LStrip(s, {SP, TAB, CR, LF}), {SP, TAB, CR, LF})

\* Python values of different types: an element of a bytes object is an int,
\* a bytes literal is a bytes object, a str literal is a str; values of
\* different types are never equal.
PyInt(c) == [int |-> c]
PyBytes(s) == [bytes |-> s]
PyStr(s) == [str |-> s]

---------------------------------------------------------------------------
(* The byte source: io.BufferedReader over the raw stream.                 *)
(* br.pos is the read cursor, br.end the end of the bytes the reader has   *)
(* buffered (the raw stream's own position).                               *)

\* one raw read at offset e: the raw stream's next chunk ends at the next cut
RawNext(e) ==
  IF e >= Len(data) THEN Len(data)
  ELSE Min({c \in cuts \cup {Len(data)} : c > e})

\* raw reads from offset e until offset p is buffered (or the stream ends)
FillTo(e, p) ==
  IF p <= e THEN e
  ELSE Min({c \in cuts \cup {Len(data)} : c >= p})

\* BufferedReader.peek(n): the buffered bytes when there are any, else one
\* raw read; n is not looked at. The cursor stays.
\* When that raw read fails the exception is raised (exc) and nothing moves.
Peek(b) ==
  IF b.end <= b.pos /\ b.pos >= Len(data) /\ fault # ""
  THEN [win |-> <<>>, br |-> b, exc |-> fault]
  ELSE LET e == IF b.end > b.pos THEN b.end ELSE RawNext(b.pos)
       IN [win |-> SubSeq(data, b.pos + 1, e),
           br |-> [pos |-> b.pos, end |-> e], exc |-> ""]

\* BufferedReader.read(n)
BufRead(b, n) ==
  LET p == IF b.pos + n < Len(data) THEN b.pos + n ELSE Len(data)
  IN [bytes |-> SubSeq(data, b.pos + 1, p),
      br |-> [pos |-> p, end |-> FillTo(b.end, p)]]

\* BufferedReader.readline(): up to and including the next LF, or the rest.
\* Without an LF ahead the raw stream is read to its end; when it fails
\* there, the exception is raised and the bytes taken so far are gone.
Readline(b) ==
  LET lfs == {i \in (b.pos + 1)..Len(data) : data[i] = LF}
      p == IF lfs = {} THEN Len(data) ELSE Min(lfs)
  IN IF lfs = {} /\ fault # ""
     THEN [line |-> <<>>, br |-> [pos |-> Len(data), end |-> Len(data)],
           exc |-> fault]
     ELSE [line |-> SubSeq(data, b.pos + 1, p),
           br |-> [pos |-> p, end |-> FillTo(b.end, p)], exc |-> ""]

---------------------------------------------------------------------------
(* MultipartReader: the boundary tokens and the line tests *)

MultipartReaderInit(bnd) ==
  LET b == CRLF \o <<DASH, DASH>> \o bnd \o <<DASH, DASH>>
  IN [nl |-> Upto(b, 2),
      nl_dash_boundary |-> Upto(b, Len(b) - 2),
      dash_boundary_dash |-> From(b, 2),
      dash_boundary |-> SubSeq(b, 3, Len(b) - 2),
      dash_boundary_nl |-> <<DASH, DASH>> \o bnd \o CRLF,
      parts_read |-> 0,
      current_part |-> 0]

\* b[0] in (b" ", b"\t"): an int looked up in a tuple of bytes objects
IsLWSP(c) == PyInt(c) \in {PyBytes(<<SP>>), PyBytes(<<TAB>>)}

RECURSIVE skipLWSPChar(_)
skipLWSPChar(b) ==
  IF Len(b) > 0 /\ IsLWSP(b[1]) THEN skipLWSPChar(Tail(b)) ELSE b

is_final_boundary(m, line) == StartsWith(line, m.dash_boundary_dash)

\* is_boundary_delimeter_line: the reader after the call (nl may shrink) ...
DelimLineReader(m, line) ==
  IF StartsWith(line, m.dash_boundary)
  THEN LET rest == skipLWSPChar(From(line, Len(m.dash_boundary)))
       IN IF m.parts_read = 0 /\ Len(rest) = 1 /\ PyInt(rest[1]) = PyStr(<<LF>>)
          THEN [m EXCEPT !.nl = Tail(m.nl),
                         !.nl_dash_boundary = Tail(m.nl_dash_boundary)]
          ELSE m
  ELSE m

\* ... and the value it returns
is_boundary_delimeter_linePrefix(m, line) == StartsWith(line, m.dash_boundary)

is_boundary_delimeter_line(m, line) ==
  IF StartsWith(line, m.dash_boundary)
  THEN skipLWSPChar(From(line, Len(m.dash_boundary))) = DelimLineReader(m, line).nl
  ELSE FALSE

peek_buffer_is_empty_part(m, peek) ==
  IF StartsWith(peek, m.dash_boundary_dash)
  THEN LET rest == skipLWSPChar(From(peek, Len(m.dash_boundary_dash)))
       IN StartsWith(rest, m.nl) \/ Len(rest) = 0
  ELSE IF ~StartsWith(peek, m.dash_boundary)
  THEN FALSE
  ELSE StartsWith(skipLWSPChar(From(peek, Len(m.dash_boundary))), m.nl)

---------------------------------------------------------------------------
(* Part and _PartReader *)

\* Part.__init__
NewPart ==
  [buf |-> <<>>, bytes_read |-> 0, closed |-> FALSE, headers |-> <<>>,
   disposition_params |-> <<>>]

\* the bytes _PartReader.read moves from the byte source into the buffer,
\* given the peeked window
NCopy(m, peek) ==
  LET idx == Find(peek, m.dash_boundary)
      safe_count == Len(peek) - Len(m.dash_boundary)
  IN IF idx # -1 THEN idx
     ELSE IF safe_count > 0 THEN safe_count
     ELSE IF safe_count = 0 THEN Len(peek)
     ELSE 0

\* p.buf = _Buff(p.buf.read() + data): the buffer after data is pulled
RefillDropsOld(old, pulled) == pulled

Refill(old, pulled) == old \o pulled

\* return p.buf.read(d), and the finally clause: buf is the refilled buffer
\* and b the byte source after the pull
ReadBuffered(p, d, buf, b) ==
  [exc |-> "",
   n |-> Upto(buf, d),
   p |-> [p EXCEPT !.buf = From(buf, d),
                   !.bytes_read = p.bytes_read + Len(Upto(buf, d))],
   br |-> b]

\* the pull: rd is what buf_reader.read(n_copy) gave
ReadPulledTwice(p, d, rd) ==
  ReadBuffered(p, d, Refill(Refill(p.buf, rd.bytes), rd.bytes), rd.br)

ReadPulled(p, d, rd) == ReadBuffered(p, d, Refill(p.buf, rd.bytes), rd.br)

\* after buf_reader.peek(): pk is the peeked window and the byte source
ReadPeeked(m, p, d, pk) ==
  IF pk.exc # ""
  THEN [exc |-> pk.exc, n |-> <<>>, p |-> p, br |-> pk.br]
  ELSE IF p.bytes_read = 0 /\ peek_buffer_is_empty_part(m, pk.win)
  THEN [exc |-> "", n |-> <<>>, p |-> p, br |-> pk.br]
  ELSE ReadPulled(p, d, BufRead(pk.br, NCopy(m, pk.win)))

\* _PartReader.read(d): [exc: the exception raised, if any, n: the bytes
\* returned, p: the Part after, br: the byte source after]
PartReaderRead(m, b, p, d) ==
  IF Len(p.buf) >= d
  THEN \* answered from the buffer; n is still "" in the finally clause
       [exc |-> "", n |-> Upto(p.buf, d),
        p |-> [p EXCEPT !.buf = From(p.buf, d)], br |-> b]
  ELSE ReadPeeked(m, p, d, Peek(b))

\* Part.read: if self.closed: raise IOError
ReadRefusedNever(p) == FALSE

ReadRefused(p) == p.closed

\* return self.reader.read(d): r is the _PartReader's result
ReadReturns(r) == [exc |-> r.exc, n |-> r.n, p |-> r.p, br |-> r.br]

\* Part.read(d) with a length: [exc, n, p, br]
PartReadN(m, b, p, d) ==
  IF ReadRefused(p)
  THEN [exc |-> "IOError", n |-> <<>>, p |-> p, br |-> b]
  ELSE ReadReturns(PartReaderRead(m, b, p, d))

\* the loop of Part.read() without a length: block-sized reads until one
\* returns nothing; acc is the data gathered so far
RECURSIVE ReadLoop(_, _, _, _)
\* one turn of the loop: r is what the block-sized read gave
ReadLoopTurn(m, acc, r) ==
  IF r.exc # ""
  THEN [exc |-> r.exc, n |-> <<>>, p |-> r.p, br |-> r.br]
  ELSE IF Len(r.n) = 0
  THEN [exc |-> "", n |-> acc, p |-> r.p, br |-> r.br]
  ELSE ReadLoop(m, r.br, r.p, acc \o r.n)

ReadLoop(m, b, p, acc) ==
  ReadLoopTurn(m, acc, PartReaderRead(m, b, p, BLOCK_SIZE))

\* Part.read() without a length
PartReadAll(m, b, p) ==
  IF ReadRefused(p)
  THEN [exc |-> "IOError", n |-> <<>>, p |-> p, br |-> b]
  ELSE ReadLoop(m, b, p, <<>>)

\* the loop of Part.close(): self.read(BLOCK_SIZE) until a chunk is empty
RECURSIVE CloseLoop(_, _, _)
\* one turn of the loop: r is what self.read(BLOCK_SIZE) gave
CloseLoopTurn(m, r) ==
  IF r.exc # "" THEN [exc |-> r.exc, p |-> r.p, br |-> r.br]
  ELSE IF Len(r.n) = 0 THEN [exc |-> "", p |-> r.p, br |-> r.br]
  ELSE CloseLoop(m, r.br, r.p)

CloseLoop(m, b, p) == CloseLoopTurn(m, PartReadN(m, b, p, BLOCK_SIZE))

\* Part.close: self.closed = True
MarkClosedNot(p) == p

MarkClosed(p) == [p EXCEPT !.closed = TRUE]

\* the end of Part.close(): r is how the loop ended
CloseEnds(r) ==
  IF r.exc # "" THEN r
  ELSE [exc |-> "", p |-> MarkClosed(r.p), br |-> r.br]

\* Part.close()
PartClose(m, b, p) == CloseEnds(CloseLoop(m, b, p))

\* a header line "name: value" as <<name, value>>; header lines have a colon
\* the name is kept as written; the value loses the blanks before it and
\* the newline after it
HeaderPair(line) ==
  LET c == Find(line, <<COLON>>)
      v == RStrip(LStrip(From(line, c + 1), {SP, TAB}), {CR, LF})
  IN <<Upto(line, c), v>>

\* dict(msg.items()): the value of the last header line of each name
HeaderDict(lines) ==
  LET withColon == SelectSeq(lines, LAMBDA l : Find(l, <<COLON>>) > 0)
      names == {HeaderPair(withColon[i])[1] : i \in 1..Len(withColon)}
  IN [nm \in names |->
        LET is == {i \in 1..Len(withColon) : HeaderPair(withColon[i])[1] = nm}
        IN HeaderPair(withColon[CHOOSE i \in is : \A j \in is : j <= i])[2]]

\* the loop of Part.populate_headers: lines up to a blank line or the end
RECURSIVE HeaderLines(_, _)
\* one turn of the loop: r is what buf_reader.readline() gave
HeaderLinesTurn(acc, r) ==
  IF r.exc # ""
  THEN [exc |-> r.exc, lines |-> acc, br |-> r.br]
  ELSE IF r.line \in {CRLF, <<LF>>, <<>>}
  THEN [exc |-> "", lines |-> acc, br |-> r.br]
  ELSE HeaderLines(r.br, Append(acc, r.line))

HeaderLines(b, acc) == HeaderLinesTurn(acc, Readline(b))

\* the Part with its headers: h is what the header loop gathered
PartWithHeaders(h) ==
  [exc |-> h.exc,
   p |-> [NewPart EXCEPT !.headers = HeaderDict(h.lines)], br |-> h.br]

\* _new_part(mr): Part(mr) and populate_headers
NewPartOf(b) == PartWithHeaders(HeaderLines(b, <<>>))

---------------------------------------------------------------------------
(* Part.form_name and Part.file_name. A word of a header (its name, a      *)
(* parameter's name or value) is one symbol of the stream; a word written  *)
(* with capitals and the same word in lower case are different symbols.    *)

\* str.lower() on the words that occur with capitals
LowerSym(c) ==
  CASE c = "Content-Disposition" -> "content-disposition"
    [] c = "Name" -> "name"
    [] OTHER -> c

Lower(s) == [i \in 1..Len(s) |-> LowerSym(s[i])]

\* cgi._parseparam: where the piece that starts s ends, the first semicolon
\* with an even number of quotes before it, or the end of s
PieceEnd(s) ==
  LET quotes(n) == Cardinality({i \in 1..n : s[i] = QUOTE})
      ends == {n \in 0..(Len(s) - 1) :
                 s[n + 1] = SEMI /\ (n = 0 \/ quotes(n) % 2 = 0)}
  IN IF ends = {} THEN Len(s) ELSE Min(ends)

\* cgi._parseparam: the pieces of s between semicolons, stripped
RECURSIVE ParseParam(_)
ParseParam(s) ==
  IF ~StartsWith(s, <<SEMI>>) THEN <<>>
  ELSE <<Strip(Upto(Tail(s), PieceEnd(Tail(s))))>>
         \o ParseParam(From(Tail(s), PieceEnd(Tail(s))))

\* the value of a parameter: quotes around it are taken off
Unquote(v) ==
  IF Len(v) >= 2 /\ v[1] = QUOTE /\ v[Len(v)] = QUOTE
  THEN SubSeq(v, 2, Len(v) - 1) ELSE v

ParamName(piece) == Lower(Strip(Upto(piece, Find(piece, <<EQ>>))))

ParamValue(piece) == Unquote(Strip(From(piece, Find(piece, <<EQ>>) + 1)))

\* cgi.parse_header: the key and the parameters of a header value; of two
\* parameters of one name the later one stays
parse_header(line) ==
  LET ps == ParseParam(<<SEMI>> \o line)
      withEq == SelectSeq(Tail(ps), LAMBDA x : Find(x, <<EQ>>) >= 0)
      names == {ParamName(withEq[i]) : i \in 1..Len(withEq)}
  IN [key |-> ps[1],
      pdict |-> [nm \in names |->
        LET is == {i \in 1..Len(withEq) : ParamName(withEq[i]) = nm}
        IN ParamValue(withEq[CHOOSE i \in is : \A j \in is : j <= i])]]

\* dict.update
DictUpdate(a, b) ==
  [k \in DOMAIN a \cup DOMAIN b |-> IF k \in DOMAIN b THEN b[k] ELSE a[k]]

\* Part._parse_content_disposition
parse_content_disposition(p) ==
  IF <<"content-disposition">> \in DOMAIN p.headers
  THEN [p EXCEPT !.disposition_params =
          DictUpdate(@, parse_header(p.headers[<<"content-disposition">>]).pdict)]
  ELSE p

\* the Part once form_name() or file_name() has seen to the parameters
WithParams(p) ==
  IF DOMAIN p.disposition_params = {} THEN parse_content_disposition(p) ELSE p

\* Part.form_name(): q is the Part with its parameters
FormNameOf(q) ==
  IF <<"name">> \in DOMAIN q.disposition_params
  THEN [exc |-> "", val |-> q.disposition_params[<<"name">>], p |-> q]
  ELSE [exc |-> "KeyError", val |-> <<>>, p |-> q]

form_name(p) == FormNameOf(WithParams(p))

\* Part.file_name(): q is the Part with its parameters
FileNameOf(q) ==
  IF <<"filename">> \in DOMAIN q.disposition_params
  THEN [none |-> FALSE, val |-> q.disposition_params[<<"filename">>], p |-> q]
  ELSE [none |-> TRUE, val |-> <<>>, p |-> q]

file_name(p) == FileNameOf(WithParams(p))

---------------------------------------------------------------------------
(* MultipartReader.next_part *)

\* the while loop of next_part: [kind, mr, br, ps]
\* kind: "Part" (appended to ps), "None", "Exception", or "hang" when the
\* loop never ends
RECURSIVE NextPartLoop(_, _, _, _)
\* self.parts_read += 1; self.current_part = _new_part(self); return it:
\* np is the new Part and the byte source after its headers
NextPartReturns(m1, ps, np) ==
  IF np.exc # ""
  THEN \* populate_headers raised: parts_read is counted, no Part is set
       [kind |-> np.exc,
        mr |-> [m1 EXCEPT !.parts_read = m1.parts_read + 1],
        br |-> np.br,
        ps |-> ps]
  ELSE [kind |-> "Part",
        mr |-> [m1 EXCEPT !.parts_read = m1.parts_read + 1,
                          !.current_part = Len(ps) + 1],
        br |-> np.br,
        ps |-> Append(ps, np.p)]

\* one turn of the loop on the line read: is_EOF is the peeked window, b
\* the byte source after the peek, m1 the reader as
\* is_boundary_delimeter_line leaves it
NextPartTurn(m, m1, b, ps, expect_new_part, line, is_EOF) ==
  IF Len(is_EOF) = 0 /\ is_final_boundary(m, line)
  THEN [kind |-> "None", mr |-> m, br |-> b, ps |-> ps]
  ELSE IF is_boundary_delimeter_line(m, line)
  THEN NextPartReturns(m1, ps, NewPartOf(b))
  ELSE IF is_final_boundary(m1, line)
  THEN [kind |-> "None", mr |-> m1, br |-> b, ps |-> ps]
  ELSE IF expect_new_part
  THEN [kind |-> "Exception", mr |-> m1, br |-> b, ps |-> ps]
  ELSE IF m1.parts_read = 0
  THEN IF Len(line) = 0
       THEN \* end of stream: readline returns b"" for ever
            [kind |-> "hang", mr |-> m1, br |-> b, ps |-> ps]
       ELSE NextPartLoop(m1, b, ps, FALSE)
  ELSE IF line = m1.nl
  THEN NextPartLoop(m1, b, ps, TRUE)
  ELSE [kind |-> "Exception", mr |-> m1, br |-> b, ps |-> ps]

\* line = readline(); is_EOF = peek(1): pk is what the peek gave.
\* except ValueError: is_EOF = '' -- any other exception leaves next_part
NextPartPeeked(m, ps, expect_new_part, line, pk) ==
  IF pk.exc \notin {"", "ValueError"}
  THEN [kind |-> pk.exc, mr |-> m, br |-> pk.br, ps |-> ps]
  ELSE NextPartTurn(m, DelimLineReader(m, line), pk.br, ps, expect_new_part,
                    line, pk.win)

\* rl is what buf_reader.readline() gave
NextPartLine(m, ps, expect_new_part, rl) ==
  IF rl.exc # ""
  THEN [kind |-> rl.exc, mr |-> m, br |-> rl.br, ps |-> ps]
  ELSE NextPartPeeked(m, ps, expect_new_part, rl.line, Peek(rl.br))

NextPartLoop(m, b, ps, expect_new_part) ==
  NextPartLine(m, ps, expect_new_part, Readline(b))

\* after self.current_part.close(): c is how the close ended
NextPartClosed(m, ps, c) ==
  IF c.exc # ""
  THEN [kind |-> c.exc, mr |-> m, br |-> c.br,
        ps |-> [ps EXCEPT ![m.current_part] = c.p]]
  ELSE NextPartLoop(m, c.br, [ps EXCEPT ![m.current_part] = c.p], FALSE)

\* next_part(): close the current part, then the loop
next_part(m, b, ps) ==
  IF m.current_part # 0
  THEN NextPartClosed(m, ps, PartClose(m, b, ps[m.current_part]))
  ELSE NextPartLoop(m, b, ps, FALSE)

---------------------------------------------------------------------------
(* The streams the reader is run on *)

Digits == <<"1", "2", "3", "4">>

\* the header block of the i-th part: one header line, h: i
HeaderBlock(i) == <<"h", COLON, Digits[i]>> \o CRLF

\* payloads ps framed with boundary token bnd: delimiter line, header block,
\* blank line, payload, newline, ..., final boundary line
RECURSIVE FrameFrom(_, _, _)
FrameFrom(bnd, ps, i) ==
  IF i > Len(ps)
  THEN <<DASH, DASH>> \o bnd \o <<DASH, DASH>> \o CRLF
  ELSE <<DASH, DASH>> \o bnd \o CRLF \o HeaderBlock(i) \o CRLF
         \o ps[i] \o CRLF \o FrameFrom(bnd, ps, i + 1)

Frame(bnd, ps) == FrameFrom(bnd, ps, 1)

Tok == <<"B">>

\* a payload that holds the delimiter token of Tok, not at the start of a line
WithToken == <<"x", DASH, DASH>> \o Tok \o <<"y">>

PayloadSeqs ==
  { <<>>,
    << <<>> >>,
    << <<"x", "y", "z">> >>,
    << <<"x", DASH>>, <<"y">> >>,
    << <<"x", "y", "z">>, <<>> >>,
    << WithToken >> }

Inputs ==
  {[boundary |-> Tok, payloads |-> ps] : ps \in PayloadSeqs}
    \cup {[boundary |-> <<"B", "C">>, payloads |-> << <<"x", "y">> >>]}

\* Streams that are not the framing of a payload sequence: a body that is
\* empty (the delimiter follows the blank line at once), delimiter lines
\* with spaces or tabs after the token or ended by a bare LF, lines that
\* are no boundary after a part, text before the first delimiter, and
\* streams that end before any delimiter. The boundary token is Tok.
Hdr1 == <<"h", COLON, "1">> \o CRLF \o CRLF
Hdr2 == <<"h", COLON, "2">> \o CRLF \o CRLF
DelimLine == <<DASH, DASH>> \o Tok \o CRLF
FinalLine == <<DASH, DASH>> \o Tok \o <<DASH, DASH>> \o CRLF

EmptyThenFinal == DelimLine \o Hdr1 \o FinalLine
EmptyThenDelim == DelimLine \o Hdr1 \o DelimLine \o Hdr2 \o FinalLine
EmptyThenSpaced ==
  DelimLine \o Hdr1 \o <<DASH, DASH>> \o Tok \o <<SP>> \o CRLF \o Hdr2 \o FinalLine

TabbedFirst == <<DASH, DASH>> \o Tok \o <<TAB>> \o CRLF \o Hdr1 \o FinalLine

\* every line ended by a bare LF
BareLF ==
  <<DASH, DASH>> \o Tok \o <<LF>> \o <<"h", COLON, "1", LF, LF>> \o <<"x", LF>>
    \o <<DASH, DASH>> \o Tok \o <<DASH, DASH, LF>>

\* after the first part, a line that starts with the token but is no
\* boundary line
JunkAfterPart ==
  DelimLine \o Hdr1 \o <<"x">> \o CRLF
    \o <<DASH, DASH>> \o Tok \o <<"y">> \o CRLF \o FinalLine

\* a body of one blank line and one line of text
BlankThenJunk == DelimLine \o Hdr1 \o CRLF \o <<"y">> \o CRLF \o FinalLine

\* three lines of text before the first delimiter line: a word, a blank
\* line, and a line that starts with the token
Preamble ==
  <<"p">> \o CRLF \o CRLF \o <<DASH, DASH>> \o Tok \o <<"q">> \o CRLF
    \o DelimLine \o Hdr1 \o FinalLine

\* a line of text, then a delimiter line with a space after the token
PreambleSpaced ==
  <<"p">> \o CRLF \o <<DASH, DASH>> \o Tok \o <<SP>> \o CRLF \o Hdr1 \o FinalLine

\* streams that end before any delimiter line: no byte at all, and one line
\* of text
NoByte == <<>>
TextOnly == <<"p">> \o CRLF

Streams ==
  {EmptyThenFinal, EmptyThenDelim, EmptyThenSpaced, TabbedFirst, BareLF,
   JunkAfterPart, BlankThenJunk, Preamble, PreambleSpaced, NoByte, TextOnly}

\* Streams of one part whose header block is a Content-Disposition header,
\* its name in the usual capitals or in lower case, with a name parameter,
\* a name and a filename parameter, or no parameter; and the stream of one
\* part without that header
NameParam == <<SEMI, SP, "name", EQ, QUOTE, "a", QUOTE>>
CapsNameParam == <<SEMI, SP, "Name", EQ, QUOTE, "a", QUOTE>>
FileParam == <<SEMI, SP, "filename", EQ, QUOTE, "f", QUOTE>>

WithDisposition(name, params) ==
  DelimLine \o <<name, COLON, SP, "form-data">> \o params \o CRLF \o CRLF
    \o <<"x">> \o CRLF \o FinalLine

MetaStreams ==
  {WithDisposition(name, params) :
     name \in {"Content-Disposition", "content-disposition"},
     params \in {NameParam, NameParam \o FileParam, <<>>}}
    \cup {WithDisposition("content-disposition", CapsNameParam \o FileParam),
          DelimLine \o Hdr1 \o <<"x">> \o CRLF \o FinalLine}

\* Streams whose raw stream fails: each is the framing of one payload, cut
\* off after any number of bytes, where the raw stream raises
Whole == Frame(Tok, << <<"x", "y">> >>)

CutOff == {Upto(Whole, k) : k \in 0..Len(Whole)}

Faults == {"OSError", "ValueError"}

\* Streams that end early: the framing of one payload longer than two
\* blocks, truncated after any number of bytes; the raw stream then reports
\* its end
LongWhole == Frame(Tok, << <<"x", "y", "z", "x", "y">> >>)

Truncated == {Upto(LongWhole, k) : k \in 0..Len(LongWhole)}

\* the sets of at most k chunk borders inside a stream of n bytes
RECURSIVE CutSetsUpTo(_, _)
CutSetsUpTo(n, k) ==
  IF k = 0 THEN {{}}
  ELSE LET smaller == CutSetsUpTo(n, k - 1)
       IN smaller \cup {s \cup {c} : s \in smaller, c \in 1..(n - 1)}

CutSets(n) == CutSetsUpTo(n, MaxCuts)

---------------------------------------------------------------------------
(* The state machine: one reader, and a caller that calls next_part() and  *)
(* read(n), read() and close() on any Part the reader has returned.        *)
(* delivered[i] is what the read calls on the i-th Part have returned so   *)
(* far and origin[i] the cursor offset at which its body began; stale is   *)
(* the set of Parts for which close() has returned or which a later        *)
(* next_part() that returned has superseded; done says that next_part()    *)
(* has returned the terminal indicator; ret is the last call and how it    *)
(* ended, got the value the last form_name() or file_name() returned.      *)
(* cuts holds the chunk borders the raw stream has not reached yet.        *)

Init ==
  \E in \in Inputs :
    /\ boundary = in.boundary
    /\ payloads = in.payloads
    /\ data = Frame(in.boundary, in.payloads)
    /\ fault = ""
    /\ cuts \in CutSets(Len(Frame(in.boundary, in.payloads)))
    /\ br = [pos |-> 0, end |-> 0]
    /\ mr = MultipartReaderInit(in.boundary)
    /\ parts = <<>>
    /\ delivered = <<>>
    /\ origin = <<>>
    /\ stale = {}
    /\ done = FALSE
    /\ ret = [op |-> "init", part |-> 0, kind |-> "init"]
    /\ got = <<>>

\* the reader on a stream of Streams; no payload sequence was framed
InitStreams ==
  \E in \in Streams :
    /\ boundary = Tok
    /\ payloads = <<>>
    /\ data = in
    /\ fault = ""
    /\ cuts \in CutSets(Len(in))
    /\ br = [pos |-> 0, end |-> 0]
    /\ mr = MultipartReaderInit(Tok)
    /\ parts = <<>>
    /\ delivered = <<>>
    /\ origin = <<>>
    /\ stale = {}
    /\ done = FALSE
    /\ ret = [op |-> "init", part |-> 0, kind |-> "init"]
    /\ got = <<>>

\* the reader on a raw stream that fails after its last byte
InitFault ==
  \E in \in CutOff :
    /\ boundary = Tok
    /\ payloads = <<>>
    /\ data = in
    /\ fault \in Faults
    /\ cuts \in CutSets(Len(in))
    /\ br = [pos |-> 0, end |-> 0]
    /\ mr = MultipartReaderInit(Tok)
    /\ parts = <<>>
    /\ delivered = <<>>
    /\ origin = <<>>
    /\ stale = {}
    /\ done = FALSE
    /\ ret = [op |-> "init", part |-> 0, kind |-> "init"]
    /\ got = <<>>

\* the reader on a stream of MetaStreams
InitMeta ==
  \E in \in MetaStreams :
    /\ boundary = Tok
    /\ payloads = <<>>
    /\ data = in
    /\ fault = ""
    /\ cuts \in CutSets(Len(in))
    /\ br = [pos |-> 0, end |-> 0]
    /\ mr = MultipartReaderInit(Tok)
    /\ parts = <<>>
    /\ delivered = <<>>
    /\ origin = <<>>
    /\ stale = {}
    /\ done = FALSE
    /\ ret = [op |-> "init", part |-> 0, kind |-> "init"]
    /\ got = <<>>

\* the reader on a stream of Truncated
InitCut ==
  \E in \in Truncated :
    /\ boundary = Tok
    /\ payloads = <<>>
    /\ data = in
    /\ fault = ""
    /\ cuts \in CutSets(Len(in))
    /\ br = [pos |-> 0, end |-> 0]
    /\ mr = MultipartReaderInit(Tok)
    /\ parts = <<>>
    /\ delivered = <<>>
    /\ origin = <<>>
    /\ stale = {}
    /\ done = FALSE
    /\ ret = [op |-> "init", part |-> 0, kind |-> "init"]
    /\ got = <<>>

\* a call that never returns leaves no caller to make the next one
Running == ret.kind # "hang"

\* the chunk borders still ahead once the raw stream stands at offset e
Ahead(e) == {c \in cuts : c > e}

NextPart ==
  /\ Running
  /\ \E r \in {next_part(mr, br, parts)} :
        /\ mr' = r.mr
        /\ br' = r.br
        /\ cuts' = Ahead(r.br.end)
        /\ parts' = r.ps
        /\ delivered' = IF r.kind = "Part" THEN Append(delivered, <<>>) ELSE delivered
        /\ origin' = IF r.kind = "Part" THEN Append(origin, r.br.pos) ELSE origin
        /\ stale' = IF r.kind \in {"Part", "None"}
                    THEN stale \cup (1..Len(parts)) ELSE stale
        /\ done' = (done \/ r.kind = "None")
        /\ ret' = [op |-> "next_part",
                   part |-> IF r.kind = "Part" THEN Len(r.ps) ELSE 0,
                   kind |-> r.kind]
  /\ UNCHANGED <<data, fault, boundary, payloads, got>>

ReadN(i, d) ==
  /\ Running
  /\ \E r \in {PartReadN(mr, br, parts[i], d)} :
        /\ br' = r.br
        /\ cuts' = Ahead(r.br.end)
        /\ parts' = [parts EXCEPT ![i] = r.p]
        /\ delivered' = [delivered EXCEPT ![i] = @ \o r.n]
        /\ ret' = [op |-> "read_n", part |-> i,
                   kind |-> IF r.exc # "" THEN r.exc ELSE "bytes"]
  /\ UNCHANGED <<data, fault, boundary, payloads, mr, origin, stale, done, got>>

ReadAll(i) ==
  /\ Running
  /\ \E r \in {PartReadAll(mr, br, parts[i])} :
        /\ br' = r.br
        /\ cuts' = Ahead(r.br.end)
        /\ parts' = [parts EXCEPT ![i] = r.p]
        /\ delivered' = [delivered EXCEPT ![i] = @ \o r.n]
        /\ ret' = [op |-> "read", part |-> i,
                   kind |-> IF r.exc # "" THEN r.exc ELSE "bytes"]
  /\ UNCHANGED <<data, fault, boundary, payloads, mr, origin, stale, done, got>>

Close(i) ==
  /\ Running
  /\ \E r \in {PartClose(mr, br, parts[i])} :
        /\ br' = r.br
        /\ cuts' = Ahead(r.br.end)
        /\ parts' = [parts EXCEPT ![i] = r.p]
        /\ stale' = IF r.exc = "" THEN stale \cup {i} ELSE stale
        /\ ret' = [op |-> "close", part |-> i,
                   kind |-> IF r.exc # "" THEN r.exc ELSE "closed"]
  /\ UNCHANGED <<data, fault, boundary, payloads, mr, delivered, origin, done, got>>

FormName(i) ==
  /\ Running
  /\ \E r \in {form_name(parts[i])} :
        /\ parts' = [parts EXCEPT ![i] = r.p]
        /\ got' = r.val
        /\ ret' = [op |-> "form_name", part |-> i,
                   kind |-> IF r.exc # "" THEN r.exc ELSE "value"]
  /\ UNCHANGED <<data, cuts, fault, boundary, payloads, br, mr, delivered,
                 origin, stale, done>>

FileName(i) ==
  /\ Running
  /\ \E r \in {file_name(parts[i])} :
        /\ parts' = [parts EXCEPT ![i] = r.p]
        /\ got' = r.val
        /\ ret' = [op |-> "file_name", part |-> i,
                   kind |-> IF r.none THEN "None" ELSE "value"]
  /\ UNCHANGED <<data, cuts, fault, boundary, payloads, br, mr, delivered,
                 origin, stale, done>>

Next ==
  \/ NextPart
  \/ \E i \in 1..Len(parts) : \E d \in 0..MaxRead : ReadN(i, d)
  \/ \E i \in 1..Len(parts) : ReadAll(i)
  \/ \E i \in 1..Len(parts) : Close(i)

Spec == Init /\ [][Next]_vars

SpecStreams == InitStreams /\ [][Next]_vars

SpecFault == InitFault /\ [][Next]_vars

SpecCut == InitCut /\ [][Next]_vars

\* the caller also asks the Parts for their form name and file name
NextMeta ==
  \/ NextPart
  \/ \E i \in 1..Len(parts) : \E d \in 0..MaxRead : ReadN(i, d)
  \/ \E i \in 1..Len(parts) : ReadAll(i)
  \/ \E i \in 1..Len(parts) : Close(i)
  \/ \E i \in 1..Len(parts) : FormName(i)
  \/ \E i \in 1..Len(parts) : FileName(i)

SpecMeta == InitMeta /\ [][NextMeta]_vars

---------------------------------------------------------------------------
(* What the framing says about a stream *)

HasToken(s) == Find(s, <<DASH, DASH>> \o boundary) # -1

\* no payload holds the delimiter token
TokenFree == \A i \in 1..Len(payloads) : ~HasToken(payloads[i])

\* the offset of the i-th part's delimiter line in Frame(boundary, payloads)
RECURSIVE PartStart(_)
PartStart(i) ==
  IF i = 1 THEN 0
  ELSE PartStart(i - 1) + Len(boundary) + 4 + Len(HeaderBlock(i - 1)) + 2
         + Len(payloads[i - 1]) + 2

\* the offset at which the i-th payload begins, and the one past its end
BodyStart(i) == PartStart(i) + Len(boundary) + 4 + Len(HeaderBlock(i)) + 2
BodyEnd(i) == BodyStart(i) + Len(payloads[i])

\* the i-th Part the reader returned is the i-th framed part
InSync(i) == i <= Len(payloads) /\ origin[i] = BodyStart(i)

\* the i-th Part is open and nothing of its body has been read
Fresh(i) ==
  /\ InSync(i)
  /\ ~parts[i].closed
  /\ delivered[i] = <<>>
  /\ parts[i].buf = <<>>
  /\ br.pos = origin[i]

\* every Part returned so far has given the caller exactly its payload
AllRead == \A j \in 1..Len(parts) : InSync(j) /\ delivered[j] = payloads[j]

\* the number of bytes between the start of the i-th Part's body and the
\* first delimiter token after it (or the end of the stream)
BodyLimit(i) ==
  LET k == Find(From(data, origin[i]), mr.dash_boundary)
  IN IF k = -1 THEN Len(data) - origin[i] ELSE k

---------------------------------------------------------------------------
(* Claims *)

\* C1: round trip. On a stream framed from payloads none of which holds the
\* delimiter token, read() on a Part just returned by next_part() returns
\* exactly that part's payload, and next_part(), called when every Part so
\* far has given its payload and the terminal indicator has not been
\* returned yet, returns a Part while payloads remain and the terminal
\* indicator after the last.
C1_RoundTrip ==
  [][TokenFree =>
       /\ \A i \in 1..Len(parts) :
            Fresh(i) /\ ReadAll(i) => delivered'[i] = payloads[i]
       /\ (AllRead /\ ~done /\ NextPart) =>
            ret'.kind = (IF Len(parts) < Len(payloads) THEN "Part" ELSE "None")]_vars

\* C2: a payload that holds the delimiter token away from a line start is
\* decoded intact: read() on its fresh Part returns the whole payload, and
\* the next_part() that follows that read() returns a Part or the terminal
\* indicator.
C2_TokenInPayload ==
  [][/\ \A i \in 1..Len(parts) :
          (Fresh(i) /\ HasToken(payloads[i]) /\ ReadAll(i))
            => StartsWith(delivered'[i], payloads[i])
     /\ \A i \in 1..Len(parts) :
          (/\ InSync(i) /\ HasToken(payloads[i])
           /\ ret = [op |-> "read", part |-> i, kind |-> "bytes"]
           /\ NextPart)
            => ret'.kind \in {"Part", "None"}]_vars

\* C3: boundary safety under any chunking. The bytes a Part has returned,
\* together with those in its residual buffer, never reach past the first
\* delimiter token that follows the part's header block.
C3_BoundarySafety ==
  \A i \in 1..Len(parts) :
    Len(delivered[i]) + Len(parts[i].buf) <= BodyLimit(i)

\* C4: read(n) on an open Part returns exactly n bytes whenever at least n
\* bytes of the part's payload remain.
C4_ExactLength ==
  [][\A i \in 1..Len(parts) : \A d \in 0..MaxRead :
       (/\ TokenFree /\ InSync(i) /\ ~parts[i].closed
        /\ Len(payloads[i]) - Len(delivered[i]) >= d
        /\ ReadN(i, d))
         => Len(delivered'[i]) = Len(delivered[i]) + d]_vars

\* the caller's loop of read(1) calls on a Part until one returns nothing
RECURSIVE OneByteLoop(_, _, _, _)
OneByteLoop(m, b, p, acc) ==
  LET r == PartReadN(m, b, p, 1)
  IN IF r.exc # "" \/ Len(r.n) = 0 THEN acc
     ELSE OneByteLoop(m, r.br, r.p, acc \o r.n)

\* C5: chunk-size independence. For every open Part, in every state, the
\* bytes that read(1) calls repeated until an empty result would return
\* are the bytes one read() call would return.
C5_ChunkIndependence ==
  \A i \in 1..Len(parts) :
    ~parts[i].closed =>
      OneByteLoop(mr, br, parts[i], <<>>) = PartReadAll(mr, br, parts[i]).n

\* a Part that is open, with more than one block still to come and the
\* buffered window ending inside its body
C5_Witness ==
  \E i \in 1..Len(parts) :
    /\ ~parts[i].closed
    /\ br.pos < br.end /\ br.end < origin[i] + BodyLimit(i)
    /\ Len(PartReadAll(mr, br, parts[i]).n) > BLOCK_SIZE
    /\ OneByteLoop(mr, br, parts[i], <<>>) = PartReadAll(mr, br, parts[i]).n

\* C6: auto-drain. On a well-formed stream, next_part() called while the
\* current Part is open, whatever was read of it, drains it so that the
\* cursor stands at the start of the next delimiter line, and returns the
\* next Part with that part's own headers, or the terminal indicator after
\* the last part.
C6_AutoDrain ==
  [][\A i \in 1..Len(parts) :
       (/\ TokenFree /\ InSync(i) /\ i = mr.current_part /\ ~parts[i].closed
        /\ NextPart)
         => /\ PartClose(mr, br, parts[i]).br.pos = BodyEnd(i) + 2
            /\ IF i < Len(payloads)
               THEN /\ ret'.kind = "Part"
                    /\ parts'[i + 1].headers = HeaderDict(<<HeaderBlock(i + 1)>>)
               ELSE ret'.kind = "None"]_vars

\* C7: exactly-once terminal. Once next_part() has returned the terminal
\* indicator, every later next_part() returns it again and reads nothing.
C7_TerminalRepeats ==
  [][(done /\ NextPart) => (ret'.kind = "None" /\ br' = br)]_vars

\* C8: close() is idempotent. close() on a closed Part returns without
\* error and changes neither the Part nor the cursor, and next_part()
\* called right after the caller closed the current Part does not fail.
C8_CloseIdempotent ==
  [][/\ \A i \in 1..Len(parts) :
          (parts[i].closed /\ Close(i))
            => (ret'.kind = "closed" /\ parts' = parts /\ br' = br)
     /\ (/\ ret.op = "close" /\ ret.kind = "closed"
         /\ ret.part = mr.current_part
         /\ NextPart)
          => ret'.kind \in {"Part", "None"}]_vars

\* C9: usage error on stale Parts. Once close() has returned for a Part, or
\* a later next_part() has returned, every read(n) and read() on it raises
\* IOError and takes nothing from the byte source.
C9_StaleRead ==
  [][\A i \in stale :
       (ReadAll(i) \/ \E d \in 0..MaxRead : ReadN(i, d))
         => /\ ret'.kind = "IOError"
            /\ br' = br
            /\ parts' = parts
            /\ delivered' = delivered]_vars

\* a read() on a Part that a later next_part() has superseded was refused
C9_Witness ==
  /\ ret.op \in {"read", "read_n"}
  /\ ret.kind = "IOError"
  /\ ret.part \in stale
  /\ ret.part < Len(parts)
  /\ ~parts[Len(parts)].closed

\* C10: single open Part. A Part that is not closed is the reader's
\* current_part, and every Part returned before the newest one is closed.
C10_SingleOpen ==
  \A i \in 1..Len(parts) :
    /\ ~parts[i].closed => i = mr.current_part
    /\ i < Len(parts) => parts[i].closed

\* a second Part has just been returned, the first one closed
C10_Witness ==
  /\ Len(parts) = 2
  /\ ret.op = "next_part" /\ ret.kind = "Part"
  /\ parts[1].closed /\ ~parts[2].closed
  /\ mr.current_part = 2

---------------------------------------------------------------------------
(* The lines of a stream, as the framing convention names them *)

\* the line that starts at offset o: up to and including the next LF
LineFrom(o) ==
  IF \E j \in (o + 1)..Len(data) : data[j] = LF
  THEN SubSeq(data, o + 1, Min({j \in (o + 1)..Len(data) : data[j] = LF}))
  ELSE From(data, o)

\* the delimiter token, zero or more spaces or tabs, the newline nl
IsDelimiterLine(line, nl) ==
  /\ StartsWith(line, <<DASH, DASH>> \o boundary)
  /\ \E k \in 0..Len(line) :
       /\ Len(boundary) + 2 + k <= Len(line)
       /\ \A j \in 1..k : line[Len(boundary) + 2 + j] \in {SP, TAB}
       /\ From(line, Len(boundary) + 2 + k) = nl

\* a line that starts with the final-delimiter token
IsFinalLine(line) == StartsWith(line, <<DASH, DASH>> \o boundary \o <<DASH, DASH>>)

\* the i-th Part is open with nothing read of it, and its blank line is
\* followed at once by a delimiter line or the final boundary line
AtEmptyBody(i) ==
  /\ ~parts[i].closed
  /\ parts[i].bytes_read = 0
  /\ parts[i].buf = <<>>
  /\ delivered[i] = <<>>
  /\ br.pos = origin[i]
  /\ \/ IsDelimiterLine(LineFrom(origin[i]), mr.nl)
     \/ IsFinalLine(LineFrom(origin[i]))

\* C11: empty body. On a Part whose blank line is followed at once by a
\* delimiter line or the final boundary line, the first read() or read(n)
\* returns zero bytes and leaves the cursor where it is, and the
\* next_part() that follows the read returns the next Part (after a
\* delimiter line) or the terminal indicator (after the final boundary).
C11_EmptyBody ==
  [][\A i \in 1..Len(parts) :
       AtEmptyBody(i) =>
         /\ (ReadAll(i) \/ \E d \in 0..MaxRead : ReadN(i, d))
              => (ret'.kind = "bytes" /\ delivered'[i] = <<>> /\ br'.pos = br.pos)
         /\ (ret.op \in {"read", "read_n"} /\ ret.part = i /\ NextPart)
              => ret'.kind = (IF IsFinalLine(LineFrom(origin[i]))
                              THEN "None" ELSE "Part")]_vars

\* the first read of an empty body: zero bytes, the cursor unmoved
C11_FirstRead ==
  [][\A i \in 1..Len(parts) :
       (AtEmptyBody(i) /\ (ReadAll(i) \/ \E d \in 0..MaxRead : ReadN(i, d)))
         => (ret'.kind = "bytes" /\ delivered'[i] = <<>> /\ br'.pos = br.pos)]_vars

\* the byte source as next_part() finds it after closing the current Part,
\* and whether that close raises
AfterDrain ==
  IF mr.current_part = 0 THEN br
  ELSE PartClose(mr, br, parts[mr.current_part]).br

DrainFails ==
  mr.current_part # 0 /\ PartClose(mr, br, parts[mr.current_part]).exc # ""

\* the first line next_part() reads
FirstLine == LineFrom(AfterDrain.pos)

\* C12: delimiter line recognition. When the line next_part() reads is the
\* delimiter token, zero or more spaces or tabs, and the in-force newline,
\* next_part() adds one to parts_read and returns a new Part.
C12_DelimiterLine ==
  [][(NextPart /\ ~DrainFails /\ IsDelimiterLine(FirstLine, mr.nl))
       => (ret'.kind = "Part" /\ mr'.parts_read = mr.parts_read + 1)]_vars

\* C13: newline adaptation. When no part has been read and the line
\* next_part() reads is the delimiter token ended by a single LF,
\* next_part() makes LF the in-force newline (nl is LF, nl_dash_boundary
\* loses its CR) and returns the first Part.
C13_NewlineAdaptation ==
  [][(/\ NextPart
      /\ mr.parts_read = 0 /\ mr.current_part = 0
      /\ FirstLine = <<DASH, DASH>> \o boundary \o <<LF>>)
       => /\ ret'.kind = "Part"
          /\ mr'.nl = <<LF>>
          /\ mr'.nl_dash_boundary = <<LF, DASH, DASH>> \o boundary]_vars

\* neither a delimiter line nor a final boundary line
NoBoundaryLine(line) == ~IsDelimiterLine(line, mr.nl) /\ ~IsFinalLine(line)

\* C14: malformed-stream error. With at least one part read, when the line
\* next_part() reads after draining the current Part is neither a
\* delimiter line, nor a final boundary line, nor a blank line, or is a
\* blank line followed by a line that is no boundary line, next_part()
\* raises an error.
C14_MalformedError ==
  [][(/\ NextPart /\ ~DrainFails
      /\ mr.parts_read >= 1
      /\ \/ NoBoundaryLine(FirstLine) /\ FirstLine # mr.nl
         \/ /\ FirstLine = mr.nl
            /\ NoBoundaryLine(LineFrom(AfterDrain.pos + Len(mr.nl))))
       => ret'.kind = "Exception"]_vars

\* next_part() has raised on the line of text that follows a blank line
\* after the body of the last Part began
C14_Witness ==
  /\ ret.op = "next_part" /\ ret.kind = "Exception"
  /\ mr.parts_read >= 1
  /\ \E o \in 0..Len(data) :
       /\ o >= origin[Len(parts)]
       /\ LineFrom(o) = mr.nl
       /\ NoBoundaryLine(LineFrom(o + 2))
       /\ br.pos = o + 2 + Len(LineFrom(o + 2))

\* the offset of the first line at or after offset o that is a delimiter
\* line or a final boundary line, -1 when there is none
RECURSIVE FirstBoundaryFrom(_)
FirstBoundaryFrom(o) ==
  IF o >= Len(data) THEN -1
  ELSE IF ~NoBoundaryLine(LineFrom(o)) THEN o
  ELSE FirstBoundaryFrom(o + Len(LineFrom(o)))

\* the offset after the blank line that ends the header block at offset o
RECURSIVE HeaderEnd(_)
HeaderEnd(o) ==
  IF o >= Len(data) THEN Len(data)
  ELSE IF LineFrom(o) \in {CRLF, <<LF>>} THEN o + Len(LineFrom(o))
  ELSE HeaderEnd(o + Len(LineFrom(o)))

\* the cursor stands before one or more lines that are no boundary lines,
\* and the first boundary line after them is a delimiter line
AtPreamble ==
  /\ mr.parts_read = 0 /\ mr.current_part = 0
  /\ FirstBoundaryFrom(br.pos) > br.pos
  /\ IsDelimiterLine(LineFrom(FirstBoundaryFrom(br.pos)), mr.nl)

\* C15: preamble tolerance. While no part has been read, next_part()
\* skips the lines that are neither delimiter lines nor final boundary
\* lines, raises nothing, and returns the Part whose header block follows
\* the first delimiter line after them.
C15_Preamble ==
  [][(NextPart /\ AtPreamble)
       => /\ ret'.kind = "Part"
          /\ br'.pos = HeaderEnd(FirstBoundaryFrom(br.pos)
                                   + Len(LineFrom(FirstBoundaryFrom(br.pos))))]_vars

\* the same, when the delimiter line has no space or tab after the token
C15_PlainDelimiter ==
  [][(/\ NextPart /\ AtPreamble
      /\ LineFrom(FirstBoundaryFrom(br.pos)) = <<DASH, DASH>> \o boundary \o mr.nl)
       => /\ ret'.kind = "Part"
          /\ br'.pos = HeaderEnd(FirstBoundaryFrom(br.pos)
                                   + Len(LineFrom(FirstBoundaryFrom(br.pos))))]_vars

\* C16: I/O failure propagation. When the first readline of next_part(),
\* the peek that follows it, the drain of the current Part, or the first
\* peek of read(n), read() or close() meets the failure of the raw stream,
\* the call raises that failure.
C16_FailurePropagates ==
  [][fault # "" =>
       /\ (NextPart /\ DrainFails
             /\ PartClose(mr, br, parts[mr.current_part]).exc = fault)
            => ret'.kind = fault
       /\ (NextPart /\ ~DrainFails
             /\ \/ Readline(AfterDrain).exc # ""
                \/ Peek(Readline(AfterDrain).br).exc # "")
            => ret'.kind = fault
       /\ \A i \in 1..Len(parts) :
            (~parts[i].closed /\ Peek(br).exc # "") =>
              /\ \A d \in 1..MaxRead :
                   (Len(parts[i].buf) < d /\ ReadN(i, d)) => ret'.kind = fault
              /\ (Len(parts[i].buf) < BLOCK_SIZE /\ (ReadAll(i) \/ Close(i)))
                   => ret'.kind = fault]_vars

\* the word that the stream gives the parameter nm, if it names it
Declares(nm) == Find(data, <<nm, EQ, QUOTE>>) >= 0

Declared(nm) == <<data[Find(data, <<nm, EQ, QUOTE>>) + 4]>>

\* the header block of the stream's Part has a Content-Disposition header,
\* written in the usual capitals, that names the form field
UsualDisposition ==
  Find(data, <<"Content-Disposition", COLON>>) >= 0 /\ Declares("name")

\* C17: Disposition metadata. For a Part whose header block has a
\* Content-Disposition header in the usual capitals with a name parameter,
\* every form_name() returns the name, and every file_name() returns the
\* filename parameter, or no value when the header has none.
C17_Disposition ==
  [][UsualDisposition =>
       \A i \in 1..Len(parts) :
         /\ FormName(i) => (ret'.kind = "value" /\ got' = Declared("name"))
         /\ FileName(i) =>
              IF Declares("filename")
              THEN ret'.kind = "value" /\ got' = Declared("filename")
              ELSE ret'.kind = "None"]_vars

\* the same for a header whose name is written in lower case
C17_LowerCase ==
  [][(Find(data, <<"content-disposition", COLON>>) >= 0 /\ Declares("name")) =>
       \A i \in 1..Len(parts) :
         /\ FormName(i) => (ret'.kind = "value" /\ got' = Declared("name"))
         /\ FileName(i) =>
              IF Declares("filename")
              THEN ret'.kind = "value" /\ got' = Declared("filename")
              ELSE ret'.kind = "None"]_vars

\* the body of the i-th Part is exhausted: nothing is left in its residual
\* buffer, and the unread bytes of the byte source begin with the delimiter
\* token, with or without the newline that ends the payload before it, or
\* the stream has ended
Exhausted(i) ==
  /\ parts[i].buf = <<>>
  /\ \/ StartsWith(From(data, br.pos), mr.dash_boundary)
     \/ StartsWith(From(data, br.pos), mr.nl_dash_boundary)
     \/ br.pos >= Len(data)

\* C18: read progress. On an open Part, a read(n) with n >= 1 that returns
\* zero bytes finds the part's body exhausted.
C18_ReadProgress ==
  [][\A i \in 1..Len(parts) : \A d \in 1..MaxRead :
       (/\ ~parts[i].closed
        /\ ReadN(i, d)
        /\ ret'.kind = "bytes"
        /\ delivered'[i] = delivered[i])
         => Exhausted(i)]_vars

\* C19: read counter. Every read(n) and read() call that returns adds to
\* the Part's bytes_read the number of body bytes it returned, so that
\* bytes_read is the total the calls on the Part have returned.
C19_ReadCounter ==
  [][\A i \in 1..Len(parts) :
       ((ReadAll(i) \/ \E d \in 0..MaxRead : ReadN(i, d)) /\ ret'.kind = "bytes")
         => parts'[i].bytes_read - parts[i].bytes_read
              = Len(delivered'[i]) - Len(delivered[i])]_vars

\* C20: next_part() terminates. Every call returns a Part, returns the
\* terminal indicator or raises an error; none loops for ever.
C20_NextPartTerminates ==
  [][NextPart => ret'.kind # "hang"]_vars

\* what is left for the loops of read() and close() on the i-th Part: the
\* bytes in its residual buffer and the unread bytes of the byte source
Left(i) == Len(parts[i].buf) + (Len(data) - br.pos)

\* C21: read() and close() terminate. A block-sized read on an open Part
\* that returns bytes, the turn after which the loops of read() and close()
\* go on, lessens what is left in the residual buffer and the byte source
\* by at least one byte; read() and close() come to an end, each having
\* lessened what is left by the bytes it took; and when close() has
\* returned the Part's closed flag is set.
C21_LoopsTerminate ==
  [][\A i \in 1..Len(parts) :
       /\ (/\ ~parts[i].closed
           /\ ReadN(i, BLOCK_SIZE)
           /\ delivered'[i] # delivered[i])
            => Left(i)' < Left(i)
       /\ (~parts[i].closed /\ ReadAll(i))
            => /\ ret'.kind = "bytes"
               /\ Left(i)' <= Left(i) - (Len(delivered'[i]) - Len(delivered[i]))
       /\ (~parts[i].closed /\ Close(i))
            => /\ ret'.kind = "closed"
               /\ parts'[i].closed
               /\ Left(i)' <= Left(i)]_vars

\* a stream truncated inside the body of its Part, no delimiter following,
\* on which close() has returned after more than one block was taken
C21_Witness ==
  /\ Find(data, <<DASH, DASH>> \o boundary \o <<DASH>>) = -1
  /\ \E i \in 1..Len(parts) :
       /\ ret = [op |-> "close", part |-> i, kind |-> "closed"]
       /\ parts[i].closed
       /\ parts[i].bytes_read > BLOCK_SIZE
       /\ br.pos = Len(data)

====
